---- MODULE Spec2Model ----
(***************************************************************************)
(* HairGPT (src/main.py): the Gradio handler analyze_hair and its helper   *)
(* encode_image, as a state machine over a set of submissions.  Every      *)
(* submission is one invocation of analyze_hair; its local variables       *)
(* (image, img_base64, completion, e) are per-submission state, and the    *)
(* module-level client is the only object the invocations share.           *)
(*                                                                         *)
(* Representation.  A Python str built by an f-string or by join is a      *)
(* sequence of pieces (TLA+ strings); the line break chr(10) is the piece  *)
(* NL, and no field value contains a line break (the data model's "short   *)
(* strings").  An Optional value is <<>> for None and <<v>> for v.         *)
(***************************************************************************)
EXTENDS Integers, Sequences, FiniteSets, TLC

VARIABLES pc, image, img_base64, completion, exc, output, encodes, calls

vars == <<pc, image, img_base64, completion, exc, output, encodes, calls>>

(***************************************************************************)
(* Bound of the model: the number of submissions, run in any interleaving. *)
(***************************************************************************)
NumSubmissions == 2

Submissions == 1..NumSubmissions

None == <<>>
Some(v) == <<v>>
Val(o) == o[1]

NL == "\n"

(***************************************************************************)
(* The bitmaps a submission can carry: PIL images of several pixel modes.  *)
(***************************************************************************)
Bitmaps ==
    {[mode |-> "RGB", pixels |-> <<18, 52, 200>>],
     [mode |-> "RGBA", pixels |-> <<18, 52, 200, 255>>],
     [mode |-> "P", pixels |-> <<7>>]}
Images == {None} \cup {Some(b) : b \in Bitmaps}

(***************************************************************************)
(* HairAnalysis: the pydantic model; every field is required, none is      *)
(* constrained (health_score is any int).                                  *)
(***************************************************************************)
Scores == {-3, 6, 11}

SampleResult ==
    [hair_type |-> "curly", hair_texture |-> "coarse",
     scalp_condition |-> "dry", visible_issues |-> <<"dandruff">>,
     health_score |-> 6,
     recommendations |-> <<"use moisturizing shampoo">>]

IssueLists ==
    {<<>>, <<"dandruff">>, <<"dandruff", "split ends">>,
     <<"split ends", "dandruff">>, <<"dandruff", "dandruff">>}

RecLists ==
    {<<>>, <<"use moisturizing shampoo">>,
     <<"use moisturizing shampoo", "trim regularly">>,
     <<"trim regularly", "use moisturizing shampoo", "trim regularly">>}

HairAnalysis ==
    {[SampleResult EXCEPT !.visible_issues = i] : i \in IssueLists}
    \cup {[SampleResult EXCEPT !.recommendations = r] : r \in RecLists}
    \cup {[SampleResult EXCEPT !.visible_issues = <<>>, !.recommendations = <<>>]}
    \cup {[SampleResult EXCEPT !.health_score = n] : n \in Scores}

(***************************************************************************)
(* base64.b64encode(bytes).decode(): the standard alphabet, 3 bytes to 4   *)
(* characters, "=" padding.                                                *)
(***************************************************************************)
B64Alphabet ==
    <<"A","B","C","D","E","F","G","H","I","J","K","L","M","N","O","P",
      "Q","R","S","T","U","V","W","X","Y","Z","a","b","c","d","e","f",
      "g","h","i","j","k","l","m","n","o","p","q","r","s","t","u","v",
      "w","x","y","z","0","1","2","3","4","5","6","7","8","9","+","/">>

B64Char(n) == B64Alphabet[n + 1]

RECURSIVE b64encode(_)
b64encode(bytes) ==
    IF Len(bytes) = 0 THEN <<>>
    ELSE IF Len(bytes) = 1 THEN
        <<B64Char(bytes[1] \div 4), B64Char((bytes[1] % 4) * 16), "=", "=">>
    ELSE IF Len(bytes) = 2 THEN
        <<B64Char(bytes[1] \div 4),
          B64Char((bytes[1] % 4) * 16 + bytes[2] \div 16),
          B64Char((bytes[2] % 16) * 4), "=">>
    ELSE
        <<B64Char(bytes[1] \div 4),
          B64Char((bytes[1] % 4) * 16 + bytes[2] \div 16),
          B64Char((bytes[2] % 16) * 4 + bytes[3] \div 64),
          B64Char(bytes[3] % 64)>>
        \o b64encode(SubSeq(bytes, 4, Len(bytes)))

(***************************************************************************)
(* image.save(buffered, format="JPEG"): Pillow's JPEG writer accepts the   *)
(* modes of its RAWMODE table and raises OSError("cannot write mode M as   *)
(* JPEG") for any other, among them the alpha and palette modes.  The      *)
(* stream is abstracted to SOI, the pixel data quantised (lossy), EOI.     *)
(***************************************************************************)
JpegModes == {"1", "L", "RGB", "RGBX", "CMYK", "YCbCr"}

Quantise(p) == (p \div 16) * 16

JpegSave(bitmap) ==
    IF bitmap.mode \in JpegModes
    THEN [ok |-> TRUE,
          value |-> <<255, 216>>
                    \o [i \in 1..Len(bitmap.pixels) |-> Quantise(bitmap.pixels[i])]
                    \o <<255, 217>>]
    ELSE [ok |-> FALSE,
          value |-> <<"cannot write mode ", bitmap.mode, " as JPEG">>]

(***************************************************************************)
(* encode_image(image): the base64 text of the JPEG stream, or the         *)
(* exception image.save raised (ok = FALSE, value = its message).          *)
(***************************************************************************)
encode_image(bitmap) ==
    LET saved == JpegSave(bitmap)
    IN  IF saved.ok
        THEN [ok |-> TRUE, value |-> b64encode(saved.value)]
        ELSE saved

\* Mutant of Join: the items are concatenated without the line break.
RECURSIVE Join_NoSeparator(_)
Join_NoSeparator(texts) ==
    IF Len(texts) = 0 THEN <<>>
    ELSE texts[1] \o Join_NoSeparator(Tail(texts))

(***************************************************************************)
(* chr(10).join(texts)                                                     *)
(***************************************************************************)
RECURSIVE Join(_)
Join(texts) ==
    IF Len(texts) = 0 THEN <<>>
    ELSE IF Len(texts) = 1 THEN texts[1]
    ELSE texts[1] \o <<NL>> \o Join(Tail(texts))

\* The bullet prefix '   ' + U+2022 + ' ' of lines 86 and 89.
Bullet == "   <U+2022> "

Placeholder == "   No major issues detected"

\* ('   * ' + item for item in items)
Bulleted(items) == [i \in 1..Len(items) |-> <<Bullet, items[i]>>]

\* Mutant of formatted_result: the issues are joined whether or not there
\* are any, so an empty list gives an empty line and never the placeholder.
formatted_result_NoPlaceholder(result) ==
    <<NL, "Hair Analysis Results:", NL,
      NL,
      "1. Hair Type: ", result.hair_type, NL,
      "2. Hair Texture: ", result.hair_texture, NL,
      "3. Scalp Condition: ", result.scalp_condition, NL,
      "4. Visible Issues:", NL>>
    \o Join(Bulleted(result.visible_issues))
    \o <<NL,
         "5. Hair Health Score: ", ToString(result.health_score), "/10", NL,
         "6. Recommendations:", NL>>
    \o Join(Bulleted(result.recommendations))
    \o <<NL>>

\* Mutant of formatted_result: the score is clamped into 1..10 before it is
\* rendered.
formatted_result_Clamped(result) ==
    LET clamped == IF result.health_score < 1 THEN 1
                   ELSE IF result.health_score > 10 THEN 10
                   ELSE result.health_score
    IN  <<NL, "Hair Analysis Results:", NL,
          NL,
          "1. Hair Type: ", result.hair_type, NL,
          "2. Hair Texture: ", result.hair_texture, NL,
          "3. Scalp Condition: ", result.scalp_condition, NL,
          "4. Visible Issues:", NL>>
        \o (IF Len(result.visible_issues) > 0
            THEN Join(Bulleted(result.visible_issues))
            ELSE <<Placeholder>>)
        \o <<NL,
             "5. Hair Health Score: ", ToString(clamped), "/10", NL,
             "6. Recommendations:", NL>>
        \o Join(Bulleted(result.recommendations))
        \o <<NL>>

(***************************************************************************)
(* The f-string of lines 79-90.                                            *)
(***************************************************************************)
formatted_result(result) ==
    <<NL, "Hair Analysis Results:", NL,
      NL,
      "1. Hair Type: ", result.hair_type, NL,
      "2. Hair Texture: ", result.hair_texture, NL,
      "3. Scalp Condition: ", result.scalp_condition, NL,
      "4. Visible Issues:", NL>>
    \o (IF Len(result.visible_issues) > 0
        THEN Join(Bulleted(result.visible_issues))
        ELSE <<Placeholder>>)
    \o <<NL,
         "5. Hair Health Score: ", ToString(result.health_score), "/10", NL,
         "6. Recommendations:", NL>>
    \o Join(Bulleted(result.recommendations))
    \o <<NL>>

PromptToUpload == <<"Please upload an image for analysis.">>

ErrorText(message) == <<"Error analyzing image: ">> \o message

(***************************************************************************)
(* What client.beta.chat.completions.parse can do: return a completion     *)
(* whose message.parsed is a HairAnalysis or None (a refusal), or raise.   *)
(***************************************************************************)
Completions == {None} \cup {Some(r) : r \in HairAnalysis}

RemoteErrors == {<<"Connection error.">>,
                 <<"Error code: 401 - invalid api key">>}

NoneTypeError == <<"'NoneType' object has no attribute 'hair_type'">>

PcValues == {"idle", "l37", "l41", "l44", "l44_wait", "l77", "l94", "returned", "raised"}

TypeOK ==
    /\ pc \in [Submissions -> PcValues]
    /\ image \in [Submissions -> Images]
    /\ encodes \in [Submissions -> 0..1]
    /\ calls \in [Submissions -> 0..1]
    /\ \A s \in Submissions : Len(completion[s]) <= 1 /\ Len(exc[s]) <= 1
                              /\ Len(output[s]) <= 1 /\ Len(img_base64[s]) <= 1

Init ==
    /\ pc = [s \in Submissions |-> "idle"]
    /\ image = [s \in Submissions |-> None]
    /\ img_base64 = [s \in Submissions |-> None]
    /\ completion = [s \in Submissions |-> None]
    /\ exc = [s \in Submissions |-> None]
    /\ output = [s \in Submissions |-> None]
    /\ encodes = [s \in Submissions |-> 0]
    /\ calls = [s \in Submissions |-> 0]

\* The UI shell calls fn=analyze_hair with the widget's value.
Submit(s, img) ==
    /\ pc[s] = "idle"
    /\ pc' = [pc EXCEPT ![s] = "l37"]
    /\ image' = [image EXCEPT ![s] = img]
    /\ UNCHANGED <<img_base64, completion, exc, output, encodes, calls>>

\* Mutant of CheckImage: without the None test, encode_image(None) raises
\* inside the try.
CheckImage_NoNullCheck(s) ==
    /\ pc[s] = "l37"
    /\ IF image[s] = None
       THEN /\ encodes' = [encodes EXCEPT ![s] = @ + 1]
            /\ exc' = [exc EXCEPT ![s] =
                           Some(<<"'NoneType' object has no attribute 'save'">>)]
            /\ pc' = [pc EXCEPT ![s] = "l94"]
       ELSE /\ pc' = [pc EXCEPT ![s] = "l41"]
            /\ UNCHANGED <<exc, encodes>>
    /\ UNCHANGED <<image, img_base64, completion, output, calls>>

\* Lines 37-38: if image is None: return the prompt.
CheckImage(s) ==
    /\ pc[s] = "l37"
    /\ IF image[s] = None
       THEN /\ output' = [output EXCEPT ![s] = Some(PromptToUpload)]
            /\ pc' = [pc EXCEPT ![s] = "returned"]
       ELSE /\ pc' = [pc EXCEPT ![s] = "l41"]
            /\ UNCHANGED output
    /\ UNCHANGED <<image, img_base64, completion, exc, encodes, calls>>

\* Line 41: img_base64 = encode_image(image), inside the try.
Encode(s) ==
    /\ pc[s] = "l41"
    /\ encodes' = [encodes EXCEPT ![s] = @ + 1]
    /\ LET r == encode_image(Val(image[s]))
       IN  IF r.ok
           THEN /\ img_base64' = [img_base64 EXCEPT ![s] = Some(r.value)]
                /\ pc' = [pc EXCEPT ![s] = "l44"]
                /\ UNCHANGED exc
           ELSE /\ exc' = [exc EXCEPT ![s] = Some(r.value)]
                /\ pc' = [pc EXCEPT ![s] = "l94"]
                /\ UNCHANGED img_base64
    /\ UNCHANGED <<image, completion, output, calls>>

\* Lines 44-75: the request leaves through the shared client.
RemoteCall(s) ==
    /\ pc[s] = "l44"
    /\ calls' = [calls EXCEPT ![s] = @ + 1]
    /\ pc' = [pc EXCEPT ![s] = "l44_wait"]
    /\ UNCHANGED <<image, img_base64, completion, exc, output, encodes>>

\* Mutant of RemoteReturn: the completion is kept in a module-level variable
\* that every request reads.
RemoteReturn_Global(s, c) ==
    /\ pc[s] = "l44_wait"
    /\ completion' = [t \in Submissions |-> Some(c)]
    /\ pc' = [pc EXCEPT ![s] = "l77"]
    /\ UNCHANGED <<image, img_base64, exc, output, encodes, calls>>

\* The call returns a completion.
RemoteReturn(s, c) ==
    /\ pc[s] = "l44_wait"
    /\ completion' = [completion EXCEPT ![s] = Some(c)]
    /\ pc' = [pc EXCEPT ![s] = "l77"]
    /\ UNCHANGED <<image, img_base64, exc, output, encodes, calls>>

\* Mutant of RemoteRaise: the first failure of the call is retried.
RemoteRaise_Retry(s, e) ==
    /\ pc[s] = "l44_wait"
    /\ IF calls[s] < 2
       THEN /\ pc' = [pc EXCEPT ![s] = "l44"]
            /\ UNCHANGED exc
       ELSE /\ exc' = [exc EXCEPT ![s] = Some(e)]
            /\ pc' = [pc EXCEPT ![s] = "l94"]
    /\ UNCHANGED <<image, img_base64, completion, output, encodes, calls>>

\* The call raises (network, authentication, unparseable response).
RemoteRaise(s, e) ==
    /\ pc[s] = "l44_wait"
    /\ exc' = [exc EXCEPT ![s] = Some(e)]
    /\ pc' = [pc EXCEPT ![s] = "l94"]
    /\ UNCHANGED <<image, img_base64, completion, output, encodes, calls>>

\* Mutant of Format: the formatting sits outside the try, so the
\* AttributeError on a None result leaves the handler.
Format_Uncaught(s) ==
    /\ pc[s] = "l77"
    /\ LET result == Val(completion[s])
       IN  IF result = None
           THEN /\ pc' = [pc EXCEPT ![s] = "raised"]
                /\ UNCHANGED output
           ELSE /\ output' = [output EXCEPT ![s] = Some(formatted_result(Val(result)))]
                /\ pc' = [pc EXCEPT ![s] = "returned"]
    /\ UNCHANGED <<image, img_base64, completion, exc, encodes, calls>>

\* Lines 77-92: result = ...parsed; build the f-string; return it.
Format(s) ==
    /\ pc[s] = "l77"
    /\ LET result == Val(completion[s])
       IN  IF result = None
           THEN /\ exc' = [exc EXCEPT ![s] = Some(NoneTypeError)]
                /\ pc' = [pc EXCEPT ![s] = "l94"]
                /\ UNCHANGED output
           ELSE /\ output' = [output EXCEPT ![s] = Some(formatted_result(Val(result)))]
                /\ pc' = [pc EXCEPT ![s] = "returned"]
                /\ UNCHANGED exc
    /\ UNCHANGED <<image, img_base64, completion, encodes, calls>>

\* Mutant of Except: the handler logs and re-raises.
Except_Reraise(s) ==
    /\ pc[s] = "l94"
    /\ pc' = [pc EXCEPT ![s] = "raised"]
    /\ UNCHANGED <<image, img_base64, completion, exc, output, encodes, calls>>

\* Lines 94-96: except Exception as e: return the error string.
Except(s) ==
    /\ pc[s] = "l94"
    /\ output' = [output EXCEPT ![s] = Some(ErrorText(Val(exc[s])))]
    /\ pc' = [pc EXCEPT ![s] = "returned"]
    /\ UNCHANGED <<image, img_base64, completion, exc, encodes, calls>>

Next ==
    \/ \E s \in Submissions, img \in Images : Submit(s, img)
    \/ \E s \in Submissions : CheckImage(s)
    \/ \E s \in Submissions : Encode(s)
    \/ \E s \in Submissions : RemoteCall(s)
    \/ \E s \in Submissions, c \in Completions : RemoteReturn(s, c)
    \/ \E s \in Submissions, e \in RemoteErrors : RemoteRaise(s, e)
    \/ \E s \in Submissions : Format(s)
    \/ \E s \in Submissions : Except(s)

Spec == Init /\ [][Next]_vars

(***************************************************************************)
(* Fairness: the interpreter runs a started handler to its return, and     *)
(* the remote call answers or raises.                                      *)
(***************************************************************************)
Step(s) ==
    \/ CheckImage(s)
    \/ Encode(s)
    \/ RemoteCall(s)
    \/ \E c \in Completions : RemoteReturn(s, c)
    \/ \E e \in RemoteErrors : RemoteRaise(s, e)
    \/ Format(s)
    \/ Except(s)

FairSpec == Spec /\ \A s \in Submissions : WF_vars(Step(s))

(***************************************************************************)
(* Reading a text back: its lines, each as one string.                     *)
(***************************************************************************)
RECURSIVE SplitNL(_)
SplitNL(text) ==
    IF text = <<>> THEN << <<>> >>
    ELSE LET rest == SplitNL(Tail(text))
         IN  IF Head(text) = NL
             THEN << <<>> >> \o rest
             ELSE << <<Head(text)>> \o rest[1] >> \o Tail(rest)

RECURSIVE Concat(_)
Concat(pieces) ==
    IF pieces = <<>> THEN "" ELSE Head(pieces) \o Concat(Tail(pieces))

Lines(text) ==
    LET split == SplitNL(text)
    IN  [i \in 1..Len(split) |-> Concat(split[i])]

UiState(s) == IF pc[s] \in {"idle", "returned"} THEN "idle" ELSE "processing"

\* The submission returned the formatted result of its parsed completion.
Succeeded(s) ==
    /\ pc[s] = "returned"
    /\ image[s] # None
    /\ exc[s] = None

Parsed(s) == Val(Val(completion[s]))

IsPrompt(o) == o = <<"Please upload an image for analysis.">>
IsError(o) == Len(o) >= 1 /\ o[1] = "Error analyzing image: "
IsFormatted(o) ==
    LET L == Lines(o)
    IN  Len(L) >= 2 /\ L[2] = "Hair Analysis Results:"

(***************************************************************************)
(* C1: a submission whose image is None returns exactly "Please upload an  *)
(* image for analysis." and, during it, neither encode_image nor the       *)
(* remote call is invoked.                                                 *)
(***************************************************************************)
C1_NullImagePrompt ==
    \A s \in Submissions :
        (pc[s] # "idle" /\ image[s] = None) =>
            /\ encodes[s] = 0
            /\ calls[s] = 0
            /\ exc[s] = None
            /\ pc[s] \in {"l37", "returned"}
            /\ pc[s] = "returned" =>
                   output[s] = Some(<<"Please upload an image for analysis.">>)

C1_Witness ==
    \E s \in Submissions :
        pc[s] = "returned" /\ image[s] = None /\ output[s] # None

(***************************************************************************)
(* C2: when a stage of a submission with an image fails (encode_image,     *)
(* the remote call, reading the parsed result), analyze_hair raises        *)
(* nothing and returns exactly "Error analyzing image: " + the message;    *)
(* every other submission still runs and returns what its own inputs give. *)
(***************************************************************************)
C2_FailureIsErrorString ==
    \A s \in Submissions :
        /\ pc[s] # "raised"
        /\ (pc[s] = "returned" /\ exc[s] # None) =>
               /\ output[s] = Some(<<"Error analyzing image: ">> \o Val(exc[s]))
               /\ ~ IsFormatted(Val(output[s]))
               /\ \A t \in Submissions \ {s} :
                      /\ pc[t] = "idle" => ENABLED (\E img \in Images : Submit(t, img))
                      /\ pc[t] \notin {"idle", "returned"} => ENABLED Step(t)
                      /\ Succeeded(t) => IsFormatted(Val(output[t]))

C2_Witness ==
    \E s, t \in Submissions :
        /\ pc[s] = "returned" /\ exc[s] # None /\ IsError(Val(output[s]))
        /\ Succeeded(t) /\ IsFormatted(Val(output[t]))

\* The decimal text of the sample scores, written out.
ScoreText == (-3 :> "-3") @@ (6 :> "6") @@ (11 :> "11")

ScoreLine(r) == "5. Hair Health Score: " \o ScoreText[r.health_score] \o "/10"

(***************************************************************************)
(* C3: the formatted output holds the six field values in the order hair   *)
(* type, hair texture, scalp condition, visible issues, "<score>/10",      *)
(* recommendations; each visible issue and each recommendation is a        *)
(* bulleted line of its own, in list order, inside its own section.        *)
(***************************************************************************)
C3_SixSectionsInOrder ==
    \A s \in Submissions :
        Succeeded(s) =>
            LET r == Parsed(s)
                L == Lines(Val(output[s]))
                n == Len(r.visible_issues)
                m == Len(r.recommendations)
            IN  \E i1 \in 1..Len(L) :
                    /\ L[i1] = "1. Hair Type: " \o r.hair_type
                    /\ \E i2 \in (i1 + 1)..Len(L) :
                        /\ L[i2] = "2. Hair Texture: " \o r.hair_texture
                        /\ \E i3 \in (i2 + 1)..Len(L) :
                            /\ L[i3] = "3. Scalp Condition: " \o r.scalp_condition
                            /\ \E i4 \in (i3 + 1)..Len(L) :
                                /\ L[i4] = "4. Visible Issues:"
                                /\ \E i5 \in (i4 + n + 1)..Len(L) :
                                    /\ L[i5] = ScoreLine(r)
                                    /\ \A k \in 1..n :
                                           L[i4 + k] = Bullet \o r.visible_issues[k]
                                    /\ \E i6 \in (i5 + 1)..(Len(L) - m) :
                                        /\ L[i6] = "6. Recommendations:"
                                        /\ \A k \in 1..m :
                                               L[i6 + k] = Bullet \o r.recommendations[k]

C3_Witness ==
    \E s \in Submissions :
        /\ Succeeded(s)
        /\ Len(Parsed(s).visible_issues) = 2
        /\ Parsed(s).visible_issues[1] # Parsed(s).visible_issues[2]
        /\ \E t \in Submissions :
               Succeeded(t) /\ Len(Parsed(t).recommendations) = 3

(***************************************************************************)
(* C4: with visible_issues empty the visible-issues section is the single  *)
(* line "   No major issues detected" and holds no bulleted line; with     *)
(* visible_issues non-empty that line is nowhere in the output.            *)
(***************************************************************************)
C4_PlaceholderIffNoIssues ==
    \A s \in Submissions :
        Succeeded(s) =>
            LET r == Parsed(s)
                L == Lines(Val(output[s]))
            IN  IF r.visible_issues = <<>>
                THEN \E a \in 1..Len(L) :
                        /\ L[a] = "4. Visible Issues:"
                        /\ a + 2 <= Len(L)
                        /\ L[a + 1] = "   No major issues detected"
                        /\ L[a + 2] = ScoreLine(r)
                ELSE \A i \in 1..Len(L) : L[i] # "   No major issues detected"

C4_Witness ==
    \E s, t \in Submissions :
        /\ Succeeded(s) /\ Parsed(s).visible_issues = <<>>
        /\ Succeeded(t) /\ Parsed(t).visible_issues # <<>>

(***************************************************************************)
(* Reading img_base64 back: base64 decoding, and the abstract JPEG stream. *)
(***************************************************************************)
B64Index(c) == CHOOSE n \in 0..63 : B64Alphabet[n + 1] = c

RECURSIVE b64decode(_)
b64decode(chars) ==
    IF Len(chars) < 4 THEN <<>>
    ELSE LET v1 == B64Index(chars[1])
             v2 == B64Index(chars[2])
             b1 == v1 * 4 + v2 \div 16
         IN  IF chars[3] = "=" THEN <<b1>>
             ELSE LET v3 == B64Index(chars[3])
                      b2 == (v2 % 16) * 16 + v3 \div 4
                  IN  IF chars[4] = "=" THEN <<b1, b2>>
                      ELSE <<b1, b2, (v3 % 4) * 64 + B64Index(chars[4])>>
                           \o b64decode(SubSeq(chars, 5, Len(chars)))

IsJpegOf(bytes, bitmap) ==
    /\ Len(bytes) = Len(bitmap.pixels) + 4
    /\ SubSeq(bytes, 1, 2) = <<255, 216>>
    /\ SubSeq(bytes, Len(bytes) - 1, Len(bytes)) = <<255, 217>>
    /\ \A i \in 1..Len(bitmap.pixels) :
           /\ bytes[i + 2] <= bitmap.pixels[i]
           /\ bitmap.pixels[i] - bytes[i + 2] < 16

(***************************************************************************)
(* C5: for every valid bitmap, of any pixel mode (alpha and palette modes  *)
(* included), encode_image succeeds and its base64 text decodes back to a  *)
(* JPEG of the same visual content; it never fails on a valid bitmap.      *)
(***************************************************************************)
C5_EncodeNeverFails ==
    \A s \in Submissions :
        encodes[s] = 1 =>
            /\ img_base64[s] # None
            /\ IsJpegOf(b64decode(Val(img_base64[s])), Val(image[s]))

(***************************************************************************)
(* C7: a submission makes at most one remote call: none when the image is  *)
(* None or encode_image failed, exactly one once encoding has succeeded    *)
(* and the call was reached, and no second one after the call failed.      *)
(***************************************************************************)
C7_AtMostOneCall ==
    \A s \in Submissions :
        /\ calls[s] <= 1
        /\ (image[s] = None \/ img_base64[s] = None) => calls[s] = 0
        /\ (img_base64[s] # None /\ pc[s] # "l44") => calls[s] = 1

C7_Witness ==
    \E s \in Submissions :
        /\ pc[s] = "returned"
        /\ calls[s] = 1
        /\ completion[s] = None
        /\ exc[s] # None

(***************************************************************************)
(* C8: a submission goes idle -> processing -> idle; while it is being     *)
(* processed nothing is displayed, once the remote call has returned or    *)
(* raised it always comes back to idle, and it then displays one output:   *)
(* the prompt to upload, the formatted result, or an error string.         *)
(***************************************************************************)
C8_OneOutputPerSubmission ==
    /\ [](\A s \in Submissions :
            /\ pc[s] # "raised"
            /\ UiState(s) = "processing" => output[s] = None
            /\ pc[s] = "idle" => output[s] = None
            /\ pc[s] = "returned" =>
                   /\ output[s] # None
                   /\ \/ IsPrompt(Val(output[s]))
                      \/ IsFormatted(Val(output[s]))
                      \/ IsError(Val(output[s])))
    /\ \A s \in Submissions :
           (UiState(s) = "processing") ~> (pc[s] = "returned" /\ output[s] # None)

C8_Witness ==
    \E s, t \in Submissions :
        /\ pc[s] = "returned" /\ IsPrompt(Val(output[s]))
        /\ pc[t] = "returned" /\ IsError(Val(output[t])) /\ calls[t] = 1

(***************************************************************************)
(* C9: health_score is not validated: whatever integer the parsed result   *)
(* carries, below 1 and above 10 included, the submission does not fail,   *)
(* and its output shows that integer followed by "/10".                    *)
(***************************************************************************)
C9_ScoreShownUnvalidated ==
    \A s \in Submissions :
        (completion[s] # None /\ Val(completion[s]) # None) =>
            /\ exc[s] = None
            /\ pc[s] \in {"l77", "returned"}
            /\ pc[s] = "returned" =>
                   /\ ~ IsError(Val(output[s]))
                   /\ LET L == Lines(Val(output[s]))
                      IN  \E i \in 1..Len(L) : L[i] = ScoreLine(Parsed(s))

C9_Witness ==
    \E s, t \in Submissions :
        /\ Succeeded(s) /\ Parsed(s).health_score = 11
        /\ Succeeded(t) /\ Parsed(t).health_score = -3

(***************************************************************************)
(* C10: under any interleaving, the output of a submission is determined   *)
(* by its own image and its own remote response, and no step of one        *)
(* submission changes the state of another.                                *)
(***************************************************************************)
Local(s) == <<pc[s], image[s], img_base64[s], completion[s], exc[s],
              output[s], encodes[s], calls[s]>>

ExpectedOutput(img, response) ==
    IF img = None THEN PromptToUpload
    ELSE IF ~ encode_image(Val(img)).ok THEN ErrorText(encode_image(Val(img)).value)
    ELSE IF response.raised THEN ErrorText(response.value)
    ELSE IF response.value = None THEN ErrorText(NoneTypeError)
    ELSE formatted_result(Val(response.value))

\* What the remote call answered to s: the completion, or the exception.
Response(s) ==
    IF completion[s] # None
    THEN [raised |-> FALSE, value |-> Val(completion[s])]
    ELSE [raised |-> TRUE, value |-> IF exc[s] # None THEN Val(exc[s]) ELSE <<>>]

C10_SubmissionsIndependent ==
    /\ [](\A s \in Submissions :
            pc[s] = "returned" =>
                output[s] = Some(ExpectedOutput(image[s], Response(s))))
    /\ [][\A s, t \in Submissions :
            s # t => (Local(s)' = Local(s) \/ Local(t)' = Local(t))]_vars

C10_Witness ==
    \E s, t \in Submissions :
        /\ s # t
        /\ Succeeded(s) /\ Succeeded(t)
        /\ output[s] # output[t]

====
